---- MODULE Spec2Model ----
(***************************************************************************)
(* A model of two programs of the toolkit:                                 *)
(*   scripts/make_lcm_sdxl_model.py      the adapter fusion script         *)
(*   toolkit/data_transfer_object/data_loader.py                           *)
(*       print_once, FileItemDTO.__init__/cleanup,                         *)
(*       DataLoaderBatchDTO.__init__/cleanup                               *)
(* Python's None is the empty sequence; a tensor is a non-empty sequence   *)
(* of integers (its shape is its length); a stacked tensor is a sequence   *)
(* of rows.  An object is a function from attribute names to values, so    *)
(* that `del obj.attr` removes the attribute from the function's domain.   *)
(***************************************************************************)
EXTENDS Integers, Sequences, FiniteSets, TLC

VARIABLES
    \* ---- make_lcm_sdxl_model.py
    args,               \* the parsed command line flags
    adapter_id,         \* the module-level name adapter_id
    script_pc,          \* the statement the script is at
    pipeline,           \* what the diffusers pipeline holds / has saved
    \* ---- FileItemDTO construction
    size_database,      \* the shared basename -> (w, h) mapping
    printed_messages,   \* the module-level list of print_once
    stdout,             \* the lines print() wrote
    probed,             \* the image reads done so far, oldest first
    dataset_config,     \* the configuration of the dataset being loaded
    item,               \* the FileItemDTO constructed last (None before)
    last_call,          \* the arguments and the cache before the last call
    \* ---- DataLoaderBatchDTO
    file_items,         \* the file items handed to the batch
    batch,              \* the DataLoaderBatchDTO object's attributes
    phase               \* loading | constructed | raised | cleaned

vars == <<args, adapter_id, script_pc, pipeline,
          size_database, printed_messages, stdout, probed, dataset_config, item,
          last_call,
          file_items, batch, phase>>

script_vars == <<args, adapter_id, script_pc, pipeline>>
item_vars == <<size_database, printed_messages, stdout, probed, dataset_config, item,
              last_call>>
batch_vars == <<file_items, batch, phase>>

None == << >>

(***************************************************************************)
(* make_lcm_sdxl_model.py                                                  *)
(***************************************************************************)
LCM_SDXL == "latent-consistency/lcm-lora-sdxl"
LCM_SSD == "latent-consistency/lcm-lora-ssd-1b"
LCM_SD15 == "latent-consistency/lcm-lora-sdv1-5"
Unbound == "<unbound>"

Flags == [sdxl : BOOLEAN, refiner : BOOLEAN, ssd : BOOLEAN, sd2 : BOOLEAN]

\* line 32-33: the first, separate if statement
SelectSdxlBody(a, id) == IF a.sdxl THEN LCM_SDXL ELSE id

\* line 34-39: the second statement, an if / elif / else chain
SelectRestBody(a, id) ==
    IF a.refiner THEN LCM_SDXL
    ELSE IF a.ssd THEN LCM_SSD
    ELSE LCM_SD15

ScriptInit ==
    /\ args \in Flags
    /\ adapter_id = Unbound
    /\ script_pc = "select_sdxl"
    /\ pipeline = [config |-> None, loaded |-> FALSE, lora |-> Unbound,
                   fused |-> FALSE, saved |-> FALSE]

SelectSdxl ==
    /\ script_pc = "select_sdxl"
    /\ adapter_id' = SelectSdxlBody(args, adapter_id)
    /\ script_pc' = "select_rest"
    /\ UNCHANGED <<args, pipeline, item_vars, batch_vars>>

SelectRest ==
    /\ script_pc = "select_rest"
    /\ adapter_id' = SelectRestBody(args, adapter_id)
    /\ script_pc' = "model_config"
    /\ UNCHANGED <<args, pipeline, item_vars, batch_vars>>

\* line 42-53
MakeModelConfig ==
    /\ script_pc = "model_config"
    /\ pipeline' = [pipeline EXCEPT
           !.config = <<[is_xl |-> args.sdxl, is_v2 |-> args.sd2, is_ssd |-> args.ssd]>>]
    /\ script_pc' = "load_model"
    /\ UNCHANGED <<args, adapter_id, item_vars, batch_vars>>

\* line 54
LoadModel ==
    /\ script_pc = "load_model"
    /\ pipeline' = [pipeline EXCEPT !.loaded = TRUE]
    /\ script_pc' = "load_lora"
    /\ UNCHANGED <<args, adapter_id, item_vars, batch_vars>>

\* line 59
LoadLoraWeights ==
    /\ script_pc = "load_lora"
    /\ pipeline' = [pipeline EXCEPT !.lora = adapter_id]
    /\ script_pc' = "fuse_lora"
    /\ UNCHANGED <<args, adapter_id, item_vars, batch_vars>>

\* line 60
FuseLora ==
    /\ script_pc = "fuse_lora"
    /\ pipeline' = [pipeline EXCEPT !.fused = TRUE]
    /\ script_pc' = "save"
    /\ UNCHANGED <<args, adapter_id, item_vars, batch_vars>>

\* line 62-64
Save ==
    /\ script_pc = "save"
    /\ pipeline' = [pipeline EXCEPT !.saved = TRUE]
    /\ script_pc' = "done"
    /\ UNCHANGED <<args, adapter_id, item_vars, batch_vars>>

ScriptNext ==
    \/ SelectSdxl
    \/ SelectRest
    \/ MakeModelConfig
    \/ LoadModel
    \/ LoadLoraWeights
    \/ FuseLora
    \/ Save

(***************************************************************************)
(* data_loader.py: print_once and FileItemDTO.__init__                     *)
(* A path is the sequence of its components.  The file system holds, per   *)
(* path, an image: whether its format can be fast read, the (w, h) of its  *)
(* header, and whether its EXIF orientation turns it by a quarter.         *)
(***************************************************************************)
MaxOverrides == 1

Paths == { <<"a", "cat.png">>, <<"b", "cat.png">>, <<"a", "dog.webp">>, <<"b", "owl.webp">> }

Images ==
    [p \in Paths |->
        CASE p = <<"a", "cat.png">>  -> [fast |-> TRUE,  size |-> <<3, 5>>, rotated |-> FALSE]
          [] p = <<"b", "cat.png">>  -> [fast |-> TRUE,  size |-> <<4, 4>>, rotated |-> TRUE]
          [] p = <<"a", "dog.webp">> -> [fast |-> FALSE, size |-> <<6, 3>>, rotated |-> TRUE]
          [] p = <<"b", "owl.webp">> -> [fast |-> FALSE, size |-> <<5, 5>>, rotated |-> FALSE]]

\* dataset configurations; scale is the fraction num / den
DatasetConfigs ==
    { [scale |-> s, augments |-> << >>, loss_multiplier |-> 1, network_weight |-> 1,
       is_reg |-> FALSE] : s \in { <<1, 1>>, <<1, 2>> } }

IntKeys == {"scale_to_width", "scale_to_height", "crop_x", "crop_y", "crop_width", "crop_height"}
FlipKeys == {"flip_x", "flip_y"}
OverrideKeys == IntKeys \cup FlipKeys
OverrideValues(k) == IF k \in FlipKeys THEN BOOLEAN ELSE {7}

\* the keyword arguments a caller may pass: at most MaxOverrides of the keys
Merge(f, g) == [k \in DOMAIN f \cup DOMAIN g |-> IF k \in DOMAIN f THEN f[k] ELSE g[k]]

Kwargs ==
    { Merge(f, g) :
        f \in UNION { [ks -> OverrideValues("crop_x")] : ks \in SUBSET IntKeys },
        g \in UNION { [ks -> OverrideValues("flip_x")] : ks \in SUBSET FlipKeys } }

WithinBound(kw) == Cardinality(DOMAIN kw) <= MaxOverrides

\* kwargs.get(key, default)
Get(kw, key, default) == IF key \in DOMAIN kw THEN kw[key] ELSE default

\* os.path.basename
basename(path) == path[Len(path)]

FastReadWarning ==
    "Warning: Some images in the dataset cannot be fast read. This process is faster for png, jpeg"

\* print_once: the lists after the call
print_once_messages(msgs, msg) ==
    IF \E i \in 1..Len(msgs) : msgs[i] = msg THEN msgs ELSE Append(msgs, msg)

print_always_stdout(msgs, out, msg) == Append(out, msg)

print_once_stdout(msgs, out, msg) ==
    IF \E i \in 1..Len(msgs) : msgs[i] = msg THEN out ELSE Append(out, msg)

\* image_utils.get_image_size: the header's size; raises UnknownImageFormat
\* for a format it does not know
CanFastRead(path) == Images[path].fast
get_image_size(path) == Images[path].size

\* exif_transpose(Image.open(path)).size
exif_transpose_size(path) ==
    LET s == Images[path].size
    IN  IF Images[path].rotated THEN <<s[2], s[1]>> ELSE s

\* line 48-59: the (w, h) the construction resolves
ResolveSize(db, path) ==
    LET filename == basename(path)
    IN  IF filename \in DOMAIN db THEN db[filename]
        ELSE IF CanFastRead(path) THEN get_image_size(path)
        ELSE exif_transpose_size(path)

StoreSizeAlways(db, path) ==
    [k \in DOMAIN db \cup {basename(path)} |->
        IF k = basename(path)
        THEN (IF CanFastRead(path) THEN get_image_size(path) ELSE exif_transpose_size(path))
        ELSE db[k]]

\* line 59: size_database[filename] = (w, h), on a miss only
StoreSize(db, path) ==
    LET filename == basename(path)
    IN  IF filename \in DOMAIN db THEN db
        ELSE [k \in DOMAIN db \cup {filename} |->
                 IF k = filename THEN ResolveSize(db, path) ELSE db[k]]

\* the image reads of one construction, in order
Probes(db, path) ==
    IF basename(path) \in DOMAIN db THEN << >>
    ELSE IF CanFastRead(path) THEN << <<"get_image_size", path>> >>
    ELSE << <<"get_image_size", path>>, <<"Image.open", path>> >>

\* int(x * scale)
ScaleBy(x, scale) == (x * scale[1]) \div scale[2]

\* line 76
FlipYOf(kw) == Get(kw, "flip_x", FALSE)

\* line 44-82: the attributes of the constructed object
NewFileItem(path, cfg, kw, db) ==
    LET wh  == ResolveSize(db, path)
        stw == Get(kw, "scale_to_width", ScaleBy(wh[1], cfg.scale))
        sth == Get(kw, "scale_to_height", ScaleBy(wh[2], cfg.scale))
    IN  [path |-> path,
         dataset_config |-> cfg,
         width |-> wh[1],
         height |-> wh[2],
         scale_to_width |-> stw,
         scale_to_height |-> sth,
         crop_x |-> Get(kw, "crop_x", 0),
         crop_y |-> Get(kw, "crop_y", 0),
         crop_width |-> Get(kw, "crop_width", stw),
         crop_height |-> Get(kw, "crop_height", sth),
         flip_x |-> Get(kw, "flip_x", FALSE),
         flip_y |-> FlipYOf(kw),
         augments |-> cfg.augments,
         loss_multiplier |-> cfg.loss_multiplier,
         network_weight |-> cfg.network_weight,
         is_reg |-> cfg.is_reg,
         tensor |-> None]

ItemInit ==
    /\ dataset_config \in DatasetConfigs
    /\ size_database = None
    /\ printed_messages = << >>
    /\ stdout = << >>
    /\ probed = << >>
    /\ item = None
    /\ last_call = None

\* FileItemDTO(path=..., dataset_config=..., size_database=size_database, **kw)
ConstructFileItem(path, kw) ==
    LET miss == basename(path) \notin DOMAIN size_database
        warn == miss /\ ~CanFastRead(path)
    IN  /\ item' = NewFileItem(path, dataset_config, kw, size_database)
        /\ size_database' = StoreSize(size_database, path)
        /\ printed_messages' =
               IF warn THEN print_once_messages(printed_messages, FastReadWarning)
               ELSE printed_messages
        /\ stdout' =
               IF warn THEN print_once_stdout(printed_messages, stdout, FastReadWarning)
               ELSE stdout
        /\ probed' = probed \o Probes(size_database, path)
        /\ last_call' = [path |-> path, kwargs |-> kw,
                         size_database |-> size_database, stdout |-> stdout,
                         probed |-> probed]
        /\ UNCHANGED <<dataset_config, script_vars, batch_vars>>

ItemNext ==
    \E path \in Paths, kw \in { k \in Kwargs : WithinBound(k) } : ConstructFileItem(path, kw)

(***************************************************************************)
(* data_loader.py: DataLoaderBatchDTO                                      *)
(* A file item here carries the attributes the batch reads: the ones       *)
(* FileItemDTO.__init__ sets and the ones its mixins hold.                 *)
(***************************************************************************)
MaxItems == 3
MaxSet == 2

\* tensors of two shapes, two of them of the same shape
Tensors == { <<1>>, <<2>>, <<1, 1>> }
Embeds == { <<"e1">>, <<"e2">> }

TensorFields == {"control_tensor", "clip_image_tensor", "mask_tensor",
                 "unaugmented_tensor", "unconditional_tensor"}
EmbedFields == {"clip_image_embeds", "clip_image_embeds_unconditional"}

\* a file item as constructed, nothing loaded yet
BlankItem ==
    [is_latent_cached |-> FALSE,
     latent |-> None,
     tensor |-> None,
     control_tensor |-> None,
     clip_image_tensor |-> None,
     mask_tensor |-> None,
     unaugmented_tensor |-> None,
     unconditional_tensor |-> None,
     clip_image_embeds |-> None,
     clip_image_embeds_unconditional |-> None,
     extra_values |-> << >>,
     loss_multiplier |-> 1]

\* x.get_latent()
get_latent(x) == x.latent

ones_like(t) == [k \in 1..Len(t) |-> 1]

\* torch.zeros_like(t); raises on None
zeros_like(t) == [k \in 1..Len(t) |-> 0]

\* torch.cat([x.unsqueeze(0) for x in ts]): raises when an element is None
\* (None has no unsqueeze) or the shapes differ
CanCat(ts) ==
    /\ Len(ts) > 0
    /\ \A i \in 1..Len(ts) : ts[i] # None /\ Len(ts[i]) = Len(ts[1])

Cat(ts) == [i \in 1..Len(ts) |-> ts[i]]

\* any([x.f is not None for x in items])
AnyHas(items, f) == \E i \in 1..Len(items) : items[i][f] # None

\* for x in items: if x.search is not None: base = x.f; break
BaseTensor(items, search, f) ==
    IF AnyHas(items, search)
    THEN LET first == CHOOSE i \in 1..Len(items) :
                          /\ items[i][search] # None
                          /\ \A j \in 1..(i - 1) : items[j][search] = None
         IN  items[first][f]
    ELSE None

ContributionsAllBase(items, search, f) ==
    [i \in 1..Len(items) |->
        IF items[i][f] = None THEN zeros_like(BaseTensor(items, search, f))
        ELSE BaseTensor(items, f, f)]

\* the per-item list built by the second loop of a block
Contributions(items, search, f) ==
    [i \in 1..Len(items) |->
        IF items[i][f] = None THEN zeros_like(BaseTensor(items, search, f))
        ELSE items[i][f]]

\* whether a zero-fill block raises: zeros_like(None), or torch.cat
BlockRaises(items, search, f) ==
    /\ AnyHas(items, f)
    /\ \/ \E i \in 1..Len(items) :
              items[i][f] = None /\ BaseTensor(items, search, f) = None
       \/ ~CanCat(Contributions(items, search, f))

\* the attribute a zero-fill block leaves
BlockValue(items, search, f) ==
    IF AnyHas(items, f) THEN Cat(Contributions(items, search, f)) ELSE None

\* line 120-133
control_tensor_block(items) == BlockValue(items, "control_tensor", "control_tensor")
\* line 137-150
clip_image_tensor_block(items) == BlockValue(items, "clip_image_tensor", "clip_image_tensor")
\* line 152-165
mask_tensor_block(items) == BlockValue(items, "mask_tensor", "mask_tensor")
\* line 168-181
unaugmented_tensor_block(items) == BlockValue(items, "unaugmented_tensor", "unaugmented_tensor")
\* line 184-197: the base is searched by unaugmented_tensor
unconditional_tensor_block(items) == BlockValue(items, "unaugmented_tensor", "unconditional_tensor")

SearchField(f) == IF f = "unconditional_tensor" THEN "unaugmented_tensor" ELSE f

\* line 97
is_latents_cached(items) == items[1].is_latent_cached

\* line 110-112
tensor_block(items) ==
    IF ~is_latents_cached(items) THEN Cat([i \in 1..Len(items) |-> items[i].tensor])
    ELSE None

\* line 114-116
latents_block(items) ==
    IF is_latents_cached(items) THEN Cat([i \in 1..Len(items) |-> get_latent(items[i])])
    ELSE None

\* line 109
extra_values_block(items) ==
    IF Len(items[1].extra_values) > 0
    THEN [i \in 1..Len(items) |-> items[i].extra_values]
    ELSE None

EmbedsNeverRaise(items, f) == FALSE

\* line 199-213: the loop raises at the first item without the embedding
EmbedsRaise(items, f) ==
    AnyHas(items, f) /\ \E i \in 1..Len(items) : items[i][f] = None

EmbedsValue(items, f) ==
    IF AnyHas(items, f) THEN [i \in 1..Len(items) |-> items[i][f]] ELSE None

\* line 95-217: whether __init__ raises (and re-raises) an exception
InitRaises(items) ==
    \/ Len(items) = 0
    \/ /\ Len(items) > 0
       /\ \/ Len(items[1].extra_values) > 0
             /\ \E i \in 1..Len(items) :
                   Len(items[i].extra_values) # Len(items[1].extra_values)
          \/ ~is_latents_cached(items)
             /\ ~CanCat([i \in 1..Len(items) |-> items[i].tensor])
          \/ is_latents_cached(items)
             /\ ~CanCat([i \in 1..Len(items) |-> get_latent(items[i])])
          \/ \E f \in TensorFields : BlockRaises(items, SearchField(f), f)
          \/ \E f \in EmbedFields : EmbedsRaise(items, f)

\* line 96-213: the attributes of the constructed batch; file_items is the
\* caller's list itself, held in the variable file_items
NewBatch(items) ==
    [tensor |-> tensor_block(items),
     latents |-> latents_block(items),
     control_tensor |-> control_tensor_block(items),
     clip_image_tensor |-> clip_image_tensor_block(items),
     mask_tensor |-> mask_tensor_block(items),
     unaugmented_tensor |-> unaugmented_tensor_block(items),
     unconditional_tensor |-> unconditional_tensor_block(items),
     unconditional_latents |-> None,
     clip_image_embeds |-> EmbedsValue(items, "clip_image_embeds"),
     clip_image_embeds_unconditional |-> EmbedsValue(items, "clip_image_embeds_unconditional"),
     sigmas |-> None,
     extra_values |-> extra_values_block(items),
     loss_multiplier_list |-> [i \in 1..Len(items) |-> items[i].loss_multiplier]]

\* the cleanup_* methods of the mixins
cleanup_latent(x) == [x EXCEPT !.latent = None]
cleanup_control(x) == [x EXCEPT !.control_tensor = None]
cleanup_clip_image(x) == [x EXCEPT !.clip_image_tensor = None]
cleanup_mask(x) == [x EXCEPT !.mask_tensor = None]
cleanup_unconditional(x) == [x EXCEPT !.unconditional_tensor = None]

\* line 84-90: FileItemDTO.cleanup
FileItemCleanup(x) ==
    cleanup_unconditional(cleanup_mask(cleanup_clip_image(cleanup_control(
        cleanup_latent([x EXCEPT !.tensor = None])))))

\* del obj.attr
Del(obj, attr) == [a \in DOMAIN obj \ {attr} |-> obj[a]]

\* line 242-244
BatchDeleted(b) == Del(Del(Del(b, "latents"), "tensor"), "control_tensor")

BatchInit ==
    /\ file_items = << >>
    /\ batch = None
    /\ phase = "loading"

\* the loader hands the next file item of the batch over
AddFileItem(x) ==
    /\ phase = "loading"
    /\ Len(file_items) < MaxItems
    /\ file_items' = Append(file_items, x)
    /\ UNCHANGED <<batch, phase, script_vars, item_vars>>

\* an upstream stage fills one optional tensor of one item
Populate(i, f, v) ==
    /\ phase = "loading"
    /\ file_items[i][f] = None
    /\ Cardinality({ <<j, g>> \in (1..Len(file_items)) \X TensorFields :
                        file_items[j][g] # None }) < MaxSet
    /\ file_items' = [file_items EXCEPT ![i][f] = v]
    /\ UNCHANGED <<batch, phase, script_vars, item_vars>>

\* DataLoaderBatchDTO(file_items=file_items)
Construct ==
    /\ phase = "loading"
    /\ IF InitRaises(file_items)
       THEN phase' = "raised" /\ batch' = None
       ELSE phase' = "constructed" /\ batch' = NewBatch(file_items)
    /\ UNCHANGED <<file_items, script_vars, item_vars>>

\* DataLoaderBatchDTO.cleanup
Cleanup ==
    /\ phase = "constructed"
    /\ batch' = BatchDeleted(batch)
    /\ file_items' = [i \in 1..Len(file_items) |-> FileItemCleanup(file_items[i])]
    /\ phase' = "cleaned"
    /\ UNCHANGED <<script_vars, item_vars>>

\* the items a loader hands over: image loaded, latent not cached
LoadedItem == [BlankItem EXCEPT !.tensor = <<1>>]

\* items in every state of image loading and latent caching
LatentStateItems ==
    { [BlankItem EXCEPT !.is_latent_cached = c, !.tensor = t, !.latent = l] :
        c \in BOOLEAN, t \in {None, <<1>>, <<1, 1>>}, l \in {None, <<9>>} }

\* loaded items in every state of the clip embeddings
EmbedItems ==
    { [LoadedItem EXCEPT !.clip_image_embeds = e, !.clip_image_embeds_unconditional = u] :
        e \in {None} \cup Embeds, u \in {None} \cup Embeds }

FieldsNext ==
    \/ AddFileItem(LoadedItem)
    \/ \E i \in 1..Len(file_items), f \in TensorFields, v \in Tensors : Populate(i, f, v)
    \/ Construct
    \/ Cleanup

LatentsNext ==
    \/ \E x \in LatentStateItems : AddFileItem(x)
    \/ Construct
    \/ Cleanup

EmbedsNext ==
    \/ \E x \in EmbedItems : AddFileItem(x)
    \/ Construct
    \/ Cleanup

(***************************************************************************)
(* Specifications                                                          *)
(***************************************************************************)
\* the programs that a specification does not run stay as they start
NotRun(script, items, batches) ==
    /\ script =>
           /\ args = [sdxl |-> FALSE, refiner |-> FALSE, ssd |-> FALSE, sd2 |-> FALSE]
           /\ adapter_id = Unbound
           /\ script_pc = "idle"
           /\ pipeline = None
    /\ items =>
           /\ dataset_config = None
           /\ size_database = None
           /\ printed_messages = << >>
           /\ stdout = << >>
           /\ probed = << >>
           /\ item = None
           /\ last_call = None
    /\ batches =>
           /\ file_items = << >>
           /\ batch = None
           /\ phase = "idle"

InitScript == NotRun(FALSE, TRUE, TRUE) /\ ScriptInit
InitFileItem == NotRun(TRUE, FALSE, TRUE) /\ ItemInit
InitBatch == NotRun(TRUE, TRUE, FALSE) /\ BatchInit

SpecScript == InitScript /\ [][ScriptNext]_vars
SpecFileItem == InitFileItem /\ [][ItemNext]_vars
SpecFields == InitBatch /\ [][FieldsNext]_vars
SpecLatents == InitBatch /\ [][LatentsNext]_vars
SpecEmbeds == InitBatch /\ [][EmbedsNext]_vars

(***************************************************************************)
(* Claims                                                                  *)
(***************************************************************************)
\* C1: after the selection statements, adapter_id is the identifier of the
\* highest-priority flag that is set: sdxl, then refiner, then ssd, then the
\* SD 1.5 default.
C1_AdapterByPriority ==
    script_pc \notin {"select_sdxl", "select_rest"} =>
        adapter_id = IF args.sdxl THEN LCM_SDXL
                     ELSE IF args.refiner THEN LCM_SDXL
                     ELSE IF args.ssd THEN LCM_SSD
                     ELSE LCM_SD15

Called == last_call # None
CacheHit == Called /\ basename(last_call.path) \in DOMAIN last_call.size_database
CacheMiss == Called /\ basename(last_call.path) \notin DOMAIN last_call.size_database
FellBack == CacheMiss /\ ~CanFastRead(last_call.path)

\* C8: a construction whose basename is cached takes (w, h) from the cache,
\* reads no image and leaves the cache as it was; one whose basename is absent
\* reads the image and inserts exactly that entry; no entry present before the
\* call is changed or removed, and afterwards the cache maps the item's
\* basename to the item's (width, height).
C8_SizeCache ==
    Called =>
        LET before == last_call.size_database
            name   == basename(last_call.path)
        IN  /\ CacheHit =>
                /\ <<item.width, item.height>> = before[name]
                /\ probed = last_call.probed
                /\ size_database = before
            /\ CacheMiss =>
                /\ Len(probed) > Len(last_call.probed)
                /\ \A i \in Len(last_call.probed) + 1 .. Len(probed) :
                       probed[i][2] = last_call.path
                /\ DOMAIN size_database = DOMAIN before \cup {name}
            /\ \A k \in DOMAIN before :
                   k \in DOMAIN size_database /\ size_database[k] = before[k]
            /\ size_database[basename(item.path)] = <<item.width, item.height>>

\* a hit served a size that is not the one in the file's own header, with
\* another entry already cached
C8_Witness ==
    /\ CacheHit
    /\ <<item.width, item.height>> # get_image_size(item.path)
    /\ Cardinality(DOMAIN size_database) >= 2

\* C9: the fast-read warning is printed at most once: by the first
\* construction whose fast probe fails, which falls back to the full decode
\* and gets its size from it, and never by a later one; printed_messages
\* holds no text twice.
C9_WarnOnce ==
    /\ Len(stdout) <= 1
    /\ \A i, j \in 1..Len(printed_messages) :
           printed_messages[i] = printed_messages[j] => i = j
    /\ (stdout # << >>) <=> (\E i \in 1..Len(probed) : probed[i][1] = "Image.open")
    /\ Called =>
           /\ (FellBack /\ last_call.stdout = << >>) => stdout = <<FastReadWarning>>
           /\ last_call.stdout # << >> => stdout = last_call.stdout
           /\ FellBack =>
                  <<item.width, item.height>> = exif_transpose_size(last_call.path)

\* the fallback ran for two different files and the warning stands once
C9_Witness ==
    /\ FellBack
    /\ last_call.stdout # << >>
    /\ Cardinality({ i \in 1..Len(probed) : probed[i][1] = "Image.open" }) = 2
    /\ stdout = <<FastReadWarning>>

\* C10: every supplied override is stored under its own attribute, and an
\* attribute whose keyword is not supplied takes its default: the crop window
\* (0, 0, scale_to_width, scale_to_height), both flips False.
C10_OverridesStored ==
    Called =>
        LET kw == last_call.kwargs
        IN  /\ \A k \in DOMAIN kw : item[k] = kw[k]
            /\ "scale_to_width" \notin DOMAIN kw =>
                   item.scale_to_width = ScaleBy(item.width, dataset_config.scale)
            /\ "scale_to_height" \notin DOMAIN kw =>
                   item.scale_to_height = ScaleBy(item.height, dataset_config.scale)
            /\ "crop_x" \notin DOMAIN kw => item.crop_x = 0
            /\ "crop_y" \notin DOMAIN kw => item.crop_y = 0
            /\ "crop_width" \notin DOMAIN kw => item.crop_width = item.scale_to_width
            /\ "crop_height" \notin DOMAIN kw => item.crop_height = item.scale_to_height
            /\ "flip_x" \notin DOMAIN kw => item.flip_x = FALSE
            /\ "flip_y" \notin DOMAIN kw => item.flip_y = FALSE

Built == phase = "constructed"
NoneHave(f) == \A i \in 1..Len(file_items) : file_items[i][f] = None
AllHave(f) == \A i \in 1..Len(file_items) : file_items[i][f] # None
SomeHave(f) == ~NoneHave(f) /\ ~AllHave(f)
FirstHaving(f) ==
    CHOOSE i \in 1..Len(file_items) :
        file_items[i][f] # None /\ \A j \in 1..Len(file_items) : j < i => file_items[j][f] = None

\* one row per item in item order: the item's own tensor, or zeros shaped
\* like the first item that has the field
ZeroFilledRows(f) ==
    [i \in 1..Len(file_items) |->
        IF file_items[i][f] # None THEN file_items[i][f]
        ELSE [k \in 1..Len(file_items[FirstHaving(f)][f]) |-> 0]]

C3_ZeroFill ==
    Built =>
        \A f \in {"control_tensor", "clip_image_tensor", "mask_tensor", "unaugmented_tensor"} :
            SomeHave(f) => batch[f] = ZeroFilledRows(f)

\* three items of which only the second has a mask
C3_Witness ==
    /\ Built
    /\ Len(file_items) = 3
    /\ file_items[1].mask_tensor = None
    /\ file_items[2].mask_tensor = <<1, 1>>
    /\ file_items[3].mask_tensor = None
    /\ batch.mask_tensor = << <<0, 0>>, <<1, 1>>, <<0, 0>> >>

\* the tensors set for one field all have one shape
Stackable ==
    \A f \in TensorFields : \A i, j \in 1..Len(file_items) :
        (file_items[i][f] # None /\ file_items[j][f] # None)
            => Len(file_items[i][f]) = Len(file_items[j][f])

\* C4: whenever some item has unconditional_tensor, construction succeeds and
\* batch.unconditional_tensor holds one row per item, an item without it
\* giving zeros shaped like the first item that has it, whatever the items'
\* unaugmented_tensor are.
C4_UnconditionalIndependent ==
    (phase \in {"constructed", "raised"} /\ Stackable /\ ~NoneHave("unconditional_tensor")) =>
        /\ Built
        /\ batch.unconditional_tensor = ZeroFilledRows("unconditional_tensor")

\* C5: in a constructed batch, a tensor field no item has is None, and a
\* tensor field every item has is the items' own tensors in item order, one
\* row per item.
C5_NoneOrAll ==
    Built =>
        \A f \in TensorFields :
            /\ NoneHave(f) => batch[f] = None
            /\ AllHave(f) =>
                  /\ Len(batch[f]) = Len(file_items)
                  /\ \A i \in 1..Len(file_items) : batch[f][i] = file_items[i][f]

\* every item has its own unconditional tensor, no item has a mask
C5_Witness ==
    /\ Built
    /\ Len(file_items) >= 2
    /\ AllHave("unconditional_tensor")
    /\ file_items[1].unconditional_tensor # file_items[2].unconditional_tensor
    /\ NoneHave("mask_tensor")
    /\ batch.mask_tensor = None
    /\ batch.unconditional_tensor[1] = file_items[1].unconditional_tensor

\* C6: for clip_image_embeds and clip_image_embeds_unconditional: when some
\* but not all items have it, construction raises and no batch exists; when
\* all have it the batch lists them in item order; when none has it the field
\* is None.
C6_EmbedsAllOrNothing ==
    phase \in {"constructed", "raised"} =>
        \A f \in EmbedFields :
            /\ SomeHave(f) => (phase = "raised" /\ batch = None)
            /\ (Built /\ AllHave(f)) =>
                  /\ Len(batch[f]) = Len(file_items)
                  /\ \A i \in 1..Len(file_items) : batch[f][i] = file_items[i][f]
            /\ (Built /\ NoneHave(f)) => batch[f] = None

\* the item in the middle lacks the embedding and construction raised
C6_Witness ==
    /\ phase = "raised"
    /\ Len(file_items) = 3
    /\ file_items[1].clip_image_embeds # None
    /\ file_items[2].clip_image_embeds = None
    /\ file_items[3].clip_image_embeds # None
    /\ NoneHave("clip_image_embeds_unconditional")

\* C7: after cleanup the batch holds none of its tensor handles and every
\* member file item's tensor is None.
C7_CleanupReleasesAll ==
    phase = "cleaned" =>
        /\ \A f \in {"tensor", "latents"} \cup TensorFields :
               f \notin DOMAIN batch \/ batch[f] = None
        /\ \A i \in 1..Len(file_items) : file_items[i].tensor = None

====
